---------------------------- MODULE Spec2Model ----------------------------
(***************************************************************************)
(* A model of the HP 54645A/D oscilloscope driver (src/HP54645D.py): the   *)
(* transport discipline of scope.send / scope.receive, and every operation *)
(* of the subsystem classes as the validator -> encoder -> transport ->    *)
(* decoder pipeline the source writes out per operation.                   *)
(*                                                                         *)
(* Text.  A Python str is a sequence of characters, each character a       *)
(* one-character string; the newline is "\n" and the one non-ASCII         *)
(* character the inputs use, U+00E9, is the token "U+00E9" (the grave       *)
(* accent, which no input uses, is the token "U+0060").  A Python bytes    *)
(* value is a sequence of integers 0..255.                                 *)
(*                                                                         *)
(* Transport.  scope.serialObject is a pyserial Serial object.  The model  *)
(* takes from pyserial what the source relies on: a Serial constructed     *)
(* with a port is open; open() on an open port raises SerialException;     *)
(* write(), out_waiting and read_until() on a closed port raise            *)
(* PortNotOpenError; close() always leaves the port closed.  The source    *)
(* addresses the serial object through the class (scope.serialObject); the *)
(* model takes that name to denote the object the constructor made.        *)
(*                                                                         *)
(* Python.  `x is not 1` on small ints is CPython's identity of cached     *)
(* ints, which agrees with x # 1.  A call with a missing positional        *)
(* argument, `str | str`, and InputError built with one argument instead   *)
(* of two all raise TypeError.                                             *)
(***************************************************************************)
EXTENDS Integers, Sequences, FiniteSets, TLC

VARIABLES
    is_open,      \* scope.serialObject.is_open
    out_waiting,  \* scope.serialObject.out_waiting: bytes pending in the outbound buffer
    pc,           \* pc[p]: where caller p stands in its current operation
    call,         \* call[p]: the operation caller p is in, with its arguments
    message,      \* message[p]: the str this call passed to scope.send (<<>> if none)
    written,      \* written[p]: number of bytes serialObject.write accepted in this call
    trace,        \* trace[p]: the serialObject methods this call invoked, in order
    data,         \* data[p]: the bytes read_until returned to this call
    result        \* result[p]: how the call ended: the value returned or the exception raised

vars == <<is_open, out_waiting, pc, call, message, written, trace, data, result>>

---------------------------------------------------------------------------
(* Characters, str and bytes *)

\* The printable ASCII characters, code points 32..126, in order.
Printable ==
    << " ", "!", "\"", "#", "$", "%", "&", "'", "(", ")", "*", "+", ",", "-", ".", "/",
       "0", "1", "2", "3", "4", "5", "6", "7", "8", "9", ":", ";", "<", "=", ">", "?",
       "@", "A", "B", "C", "D", "E", "F", "G", "H", "I", "J", "K", "L", "M", "N", "O",
       "P", "Q", "R", "S", "T", "U", "V", "W", "X", "Y", "Z", "[", "\\", "]", "^", "_",
       "U+0060", "a", "b", "c", "d", "e", "f", "g", "h", "i", "j", "k", "l", "m", "n", "o",
       "p", "q", "r", "s", "t", "u", "v", "w", "x", "y", "z", "{", "|", "}", "~" >>

HexDigits == <<"0", "1", "2", "3", "4", "5", "6", "7", "8", "9", "a", "b", "c", "d", "e", "f">>

\* ord(c)
Ord(c) ==
    CASE c = "\n" -> 10
      [] c = "U+00E9" -> 233
      [] OTHER -> 31 + (CHOOSE i \in 1..Len(Printable) : Printable[i] = c)

\* str.isascii(): every code point is below 128
isascii(s) == \A i \in 1..Len(s) : Ord(s[i]) < 128

\* len(s)
len(s) == Len(s)

RECURSIVE Flatten(_)
Flatten(ss) == IF ss = <<>> THEN <<>> ELSE Head(ss) \o Flatten(Tail(ss))

\* UTF-8 of one code point below U+0800
Utf8(cp) == IF cp < 128 THEN <<cp>> ELSE <<192 + (cp \div 64), 128 + (cp % 64)>>

\* str.encode('utf-8')
encode(s) == Flatten([i \in 1..Len(s) |-> Utf8(Ord(s[i]))])

\* One byte as bytes.__repr__ writes it between the quotes q
ReprByte(b, q) ==
    CASE b = 9 -> <<"\\", "t">>
      [] b = 10 -> <<"\\", "n">>
      [] b = 13 -> <<"\\", "r">>
      [] b = 92 -> <<"\\", "\\">>
      [] b = Ord(q) -> <<"\\", q>>
      [] b < 32 \/ b >= 127 -> <<"\\", "x", HexDigits[(b \div 16) + 1], HexDigits[(b % 16) + 1]>>
      [] OTHER -> <<Printable[b - 31]>>

\* str(b) of a bytes value: its repr, b'...' (b"..." when the bytes hold ' and no ")
str(b) ==
    LET has(x) == \E i \in 1..Len(b) : b[i] = x
        q == IF has(39) /\ ~has(34) THEN "\"" ELSE "'"
    IN  <<"b", q>> \o Flatten([i \in 1..Len(b) |-> ReprByte(b[i], q)]) \o <<q>>

\* str.find(sub): the lowest 0-based index at which sub occurs, -1 if none
find(s, sub) ==
    LET at(i) == i + Len(sub) - 1 <= Len(s) /\ SubSeq(s, i, i + Len(sub) - 1) = sub
        hits == {i \in 1..(Len(s) + 1) : at(i)}
    IN  IF hits = {} THEN -1 ELSE (CHOOSE i \in hits : \A j \in hits : i <= j) - 1

\* str.split(sep) for a one-character separator
RECURSIVE split(_, _)
split(s, sep) ==
    LET cuts == {i \in 1..Len(s) : s[i] = sep}
    IN  IF cuts = {} THEN <<s>>
        ELSE LET i == CHOOSE k \in cuts : \A j \in cuts : k <= j
             IN  <<SubSeq(s, 1, i - 1)>> \o split(SubSeq(s, i + 1, Len(s)), sep)

Whitespace == {" ", "\n"}
Digits == {"0", "1", "2", "3", "4", "5", "6", "7", "8", "9"}

\* str.strip()
RECURSIVE strip(_)
strip(s) ==
    IF s = <<>> THEN s
    ELSE IF Head(s) \in Whitespace THEN strip(Tail(s))
    ELSE IF s[Len(s)] \in Whitespace THEN strip(SubSeq(s, 1, Len(s) - 1))
    ELSE s

DigitValue(c) == Ord(c) - 48

RECURSIVE DigitsValue(_)
DigitsValue(s) ==
    IF s = <<>> THEN 0 ELSE 10 * DigitsValue(SubSeq(s, 1, Len(s) - 1)) + DigitValue(s[Len(s)])

\* The digits of n >= 0 in decimal
RECURSIVE NatDigits(_)
NatDigits(n) ==
    IF n < 10 THEN <<Printable[n + 17]>> ELSE NatDigits(n \div 10) \o <<Printable[(n % 10) + 17]>>

\* f"{n}" for an int n
FormatInt(n) == IF n < 0 THEN <<"-">> \o NatDigits(-n) ELSE NatDigits(n)

\* f"{'ON' if b else 'OFF'}"
OnOff(b) == IF b THEN <<"O", "N">> ELSE <<"O", "F", "F">>

\* int(s): surrounding whitespace dropped, an optional sign, then digits with single
\* underscores between them; anything else is a ValueError
IntLiteral(s) ==
    LET t == strip(s)
        signed == t # <<>> /\ Head(t) \in {"+", "-"}
        body == IF signed THEN Tail(t) ELSE t
        wellformed ==
            /\ body # <<>>
            /\ \A i \in 1..Len(body) : body[i] \in Digits \cup {"_"}
            /\ body[1] # "_" /\ body[Len(body)] # "_"
            /\ \A i \in 1..(Len(body) - 1) : ~(body[i] = "_" /\ body[i + 1] = "_")
        digits == SelectSeq(body, LAMBDA c : c # "_")
    IN  [ok |-> wellformed,
         value |-> IF ~wellformed THEN 0
                   ELSE IF signed /\ Head(t) = "-" THEN -DigitsValue(digits) ELSE DigitsValue(digits)]

\* float(s) on the literals the model meets: whitespace dropped, an optional sign, digits
\* with an optional fraction; the value is kept as the literal's text
FloatLiteral(s) ==
    LET t == strip(s)
        signed == t # <<>> /\ Head(t) \in {"+", "-"}
        body == IF signed THEN Tail(t) ELSE t
        parts == split(body, ".")
        alldigits(x) == \A i \in 1..Len(x) : x[i] \in Digits
        wellformed ==
            /\ Len(parts) \in {1, 2}
            /\ \A k \in 1..Len(parts) : alldigits(parts[k])
            /\ \E k \in 1..Len(parts) : parts[k] # <<>>
    IN  [ok |-> wellformed, value |-> IF wellformed THEN t ELSE <<>>]

---------------------------------------------------------------------------
(* Calls, plans and results *)

\* A call: the operation and its arguments.  ch is the int channel, channel group or
\* trace number; n an int value; b a bool value; s a str value (an enumerated token or
\* a channel selector); t a str label or threshold value; vt tells whether the value
\* argument of analog.setOffset is a number ("int") or a str ("str").
Invocation(op, ch, n, b, s, t, vt) == [op |-> op, ch |-> ch, n |-> n, b |-> b, s |-> s, t |-> t, vt |-> vt]
NoCall == Invocation("", 0, 0, FALSE, <<>>, <<>>, "int")

\* What an operation does up to its first transport call: it raises, it returns without
\* touching the transport, or it calls scope.send(msg) and then either returns (reply
\* "none") or calls scope.receive() and decodes the line by `reply`.
Raise(exc) == [kind |-> "raise", exc |-> exc, msg |-> <<>>, reply |-> "none"]
Pass == [kind |-> "return", exc |-> "", msg |-> <<>>, reply |-> "none"]
Send(msg) == [kind |-> "send", exc |-> "", msg |-> msg, reply |-> "none"]
Query(msg, reply) == [kind |-> "send", exc |-> "", msg |-> msg, reply |-> reply]

\* raise InputError(expression, message)
InputError == Raise("InputError")
\* raise InputError(f"...") : InputError.__init__ takes two arguments, so building the
\* exception raises TypeError
InputError1 == Raise("TypeError")

\* How a call ended.  ty tags the type of the value v.
Returned(ty, v) == [kind |-> "return", exc |-> "", ty |-> ty, v |-> v]
Raised(exc) == [kind |-> "raise", exc |-> exc, ty |-> "none", v |-> 0]
Pending == [kind |-> "pending", exc |-> "", ty |-> "none", v |-> 0]
None == Returned("none", 0)

---------------------------------------------------------------------------
(* class acquire *)

acquire_setCompletionCriteria(c) ==
    IF c.n < 0 \/ c.n > 100 THEN InputError
    ELSE Send(<<":", "A", "C", "Q", ":", "C", "O", "M", "P", " ">> \o FormatInt(c.n) \o <<"\n">>)

acquire_getCompletionCriteria(c) == Query(<<":", "A", "C", "Q", ":", "C", "O", "M", "P", "?">>, "int")

\* acquire.setCount with a range test in place of the membership test.
acquire_setCount_RangeCheck(c) ==
    IF c.n < 1 \/ c.n > 256 THEN InputError
    ELSE Send(<<":", "A", "C", "Q", ":", "C", "O", "U", "N", " ">> \o FormatInt(c.n) \o <<"\n">>)

acquire_setCount(c) ==
    IF c.n \notin {1, 2, 4, 8, 16, 32, 64, 128, 256} THEN InputError
    ELSE Send(<<":", "A", "C", "Q", ":", "C", "O", "U", "N", " ">> \o FormatInt(c.n) \o <<"\n">>)

acquire_getCount(c) == Query(<<":", "A", "C", "Q", ":", "C", "O", "U", "N", "?">>, "int")

acquire_setDither(c) == Send(<<":", "A", "C", "Q", ":", "D", "I", "T", "H", " ">> \o OnOff(c.b) \o <<"\n">>)

acquire_getDither(c) == Query(<<":", "A", "C", "Q", ":", "D", "I", "T", "H", "?">>, "raw")

acquire_setType(c) ==
    IF c.s \notin {<<"N", "O", "R", "M">>, <<"A", "V", "E", "R">>, <<"P", "E", "A", "K">>, <<"R", "E", "A", "L">>} THEN InputError
    ELSE Send(<<":", "A", "C", "Q", ":", "T", "Y", "P", "E", " ">> \o c.s \o <<"\n">>)

acquire_getType(c) == Query(<<":", "A", "C", "Q", ":", "T", "Y", "P", "E", "?">>, "raw")

acquire_getPoints(c) == Query(<<":", "A", "C", "Q", ":", "P", "O", "I", "N", "?">>, "points")

---------------------------------------------------------------------------
(* class analog *)

\* channel is not 1 and channel is not 2
BadChannel(channel) == channel # 1 /\ channel # 2

\* f":ANAL{channel}"
ANAL(channel) == <<":", "A", "N", "A", "L">> \o FormatInt(channel)

analog_setBWLimit(c) ==
    IF BadChannel(c.ch) THEN InputError
    ELSE Send(ANAL(c.ch) \o <<":", "B", "W", "L", " ">> \o OnOff(c.b) \o <<"\n">>)

analog_getBWLimit(c) ==
    IF BadChannel(c.ch) THEN InputError
    ELSE Query(ANAL(c.ch) \o <<":", "B", "W", "L", "?">>, "find_on")

analog_setCoupling(c) ==
    IF BadChannel(c.ch) THEN InputError
    ELSE IF c.s \notin {<<"A", "C">>, <<"D", "C">>, <<"G", "N", "D">>} THEN InputError
    ELSE Send(ANAL(c.ch) \o <<":", "C", "O", "U", "P", " ">> \o c.s \o <<"\n">>)

analog_getCoupling(c) ==
    IF BadChannel(c.ch) THEN InputError
    ELSE Query(ANAL(c.ch) \o <<":", "C", "O", "U", "P", "?">>, "find_on")

analog_setInversion(c) ==
    IF BadChannel(c.ch) THEN InputError
    ELSE Send(ANAL(c.ch) \o <<":", "I", "N", "V", " ">> \o OnOff(c.b) \o <<"\n">>)

analog_getInversion(c) ==
    IF BadChannel(c.ch) THEN InputError
    ELSE Query(ANAL(c.ch) \o <<":", "I", "N", "V", "?">>, "find_on")

\* analog.setLabel without the isascii test.
analog_setLabel_NoAsciiCheck(c) ==
    IF BadChannel(c.ch) THEN InputError
    ELSE IF len(c.t) > 6 THEN InputError
    ELSE Send(ANAL(c.ch) \o <<":", "L", "A", "B", " ", "\"">> \o c.t \o <<"\"", "\n">>)

analog_setLabel(c) ==
    IF BadChannel(c.ch) THEN InputError
    ELSE IF ~isascii(c.t) THEN InputError
    ELSE IF len(c.t) > 6 THEN InputError
    ELSE Send(ANAL(c.ch) \o <<":", "L", "A", "B", " ", "\"">> \o c.t \o <<"\"", "\n">>)

analog_getLabel(c) ==
    IF BadChannel(c.ch) THEN InputError
    ELSE Query(ANAL(c.ch) \o <<":", "L", "A", "B", "?">>, "raw")

\* The offset is c.n when a number was passed, the str c.t otherwise.
analog_setOffset(c) ==
    IF BadChannel(c.ch) THEN InputError
    ELSE IF c.vt # "int" THEN InputError
    ELSE Send(ANAL(c.ch) \o <<":", "O", "F", "F", "S", " ">> \o FormatInt(c.n) \o <<"\n">>)

analog_getOffset(c) ==
    IF BadChannel(c.ch) THEN InputError
    ELSE Query(ANAL(c.ch) \o <<":", "O", "F", "F", "S", "?">>, "raw")

analog_setProbeMode(c) ==
    IF BadChannel(c.ch) THEN InputError
    ELSE IF c.s \notin {<<"A", "U", "T">>, <<"M", "A", "N">>} THEN InputError
    ELSE Send(ANAL(c.ch) \o <<":", "P", "M", "O", "D", "E", " ">> \o c.s \o <<"\n">>)

analog_getProbeMode(c) ==
    IF BadChannel(c.ch) THEN InputError
    ELSE Query(ANAL(c.ch) \o <<":", "P", "M", "O", "D", "?">>, "raw")

\* `attenuation.upper not in {...}` tests the bound method, not its result: the method
\* object is a member of no set of strings, so the test is true of every attenuation.
UpperMethodNotIn(attenuation, tokens) == TRUE

analog_setProbeAttenuation(c) ==
    IF BadChannel(c.ch) THEN InputError
    ELSE IF UpperMethodNotIn(c.s, {<<"X", "1">>, <<"X", "1", "0">>, <<"X", "2", "0">>, <<"X", "1", "0", "0">>}) THEN InputError
    ELSE Send(ANAL(c.ch) \o <<":", "P", "R", "O", "B", " ">> \o c.s)

analog_getProbeAttenuation(c) ==
    IF BadChannel(c.ch) THEN InputError
    ELSE Query(ANAL(c.ch) \o <<":", "P", "R", "O", "B", "?">>, "raw")

\* The first statement calls scope.analog.getProbeAttenuation() without its channel
\* argument: Python raises TypeError before the function body, and so before the
\* channel check and the range check of setRange, is entered.
analog_setRange(c) == Raise("TypeError")

analog_getRange(c) ==
    IF BadChannel(c.ch) THEN InputError
    ELSE Query(ANAL(c.ch) \o <<":", "R", "A", "N", "G", "?">>, "float")

---------------------------------------------------------------------------
(* class calibrate *)

calibrate_setCalibrationLabel(c) ==
    IF len(c.t) > 32 THEN InputError
    ELSE IF ~isascii(c.t) THEN InputError
    ELSE Send(<<":", "C", "A", "L", ":", "L", "A", "B", " ">> \o c.t)

calibrate_getCalibrationLabel(c) == Query(<<":", "C", "A", "L", ":", "L", "A", "B", "?">>, "raw")

calibrate_getCalibrationSwitchState(c) == Query(<<":", "C", "A", "L", ":", "S", "W", "I", "T", "?">>, "raw")

---------------------------------------------------------------------------
(* class channel *)

channel_clearEdgeVariables(c) == Send(<<":", "C", "H", "A", "N", ":", "A", "C", "T", "\n">>)

channel_getActiveEdgesAndLogicLevels(c) == Query(<<":", "C", "H", "A", "N", ":", "A", "C", "T", "?", "\n">>, "raw")

\* re.fullmatch("/^((A[1-2])|(D[0-9])|(D1[0-5]?))$/g", channel): the pattern asks for a
\* literal "/" and then for the start of the string, which no position after a
\* character is; it matches no string.
MatchChannelPattern(channel) == FALSE

\* re.fullmatch("/g^[A-z]{1,6}$/g", label): no match, for the same reason.
MatchLabelPattern(label) == FALSE

\* "ANAL" if channel.startswith("A") else "DIG"
chanType(channel) == IF channel # <<>> /\ Head(channel) = "A" THEN <<"A", "N", "A", "L">> ELSE <<"D", "I", "G">>

\* channel.replace("A", "").replace("D", "")
chanNum(channel) == SelectSeq(channel, LAMBDA x : x \notin {"A", "D"})

channel_setLabel(c) ==
    IF ~MatchChannelPattern(c.s) THEN InputError1
    ELSE IF ~(MatchLabelPattern(c.t) /\ isascii(c.t)) THEN InputError1
    ELSE IF ~IntLiteral(chanNum(c.s)).ok THEN Raise("ValueError")
    ELSE Send(<<":", "C", "H", "A", "N", ":", "L", "A", "B", " ">> \o chanType(c.s) \o FormatInt(IntLiteral(chanNum(c.s)).value)
              \o <<",", "\"">> \o c.t \o <<"\"", "\n">>)

channel_getLabel(c) ==
    IF ~MatchChannelPattern(c.s) THEN InputError1
    ELSE IF ~IntLiteral(chanNum(c.s)).ok THEN Raise("ValueError")
    ELSE Query(<<":", "C", "H", "A", "N", ":", "L", "A", "B", "?", " ">> \o chanType(c.s) \o FormatInt(IntLiteral(chanNum(c.s)).value)
               \o <<"\n">>, "raw")

\* `mode not in {}`: {} is the empty dict, which holds no key.
InEmptyDict(mode) == FALSE

channel_setMath(c) ==
    IF ~InEmptyDict(c.s) THEN InputError1
    ELSE Send(<<":", "C", "H", "A", "N", ":", "M", "A", "T", "H", " ">> \o c.s \o <<"\n">>)

channel_getMath(c) == Query(<<":", "C", "H", "A", "N", ":", "M", "A", "T", "H", "?", "\n">>, "raw")

\* When the group is 1 or 2 the next test builds {"CMOS" | "ECL" | "TTL" | "USER"}:
\* `|` is not defined on str, so evaluating it raises TypeError before the membership
\* test and the send that follow it.
channel_setThreshold(c) ==
    IF c.ch \notin {1, 2} THEN InputError1
    ELSE Raise("TypeError")

channel_getThreshold(c) ==
    IF c.ch \notin {1, 2} THEN InputError1
    ELSE Query(<<":", "C", "H", "A", "N", ":", "T", "H", "R", "?", " ", "P", "O", "D">> \o FormatInt(c.ch) \o <<"\n">>, "raw")

---------------------------------------------------------------------------
(* classes system, test, timebase, trace, trigger *)

system_getError(c) == Query(<<":", "S", "Y", "S", ":", "E", "R", "R", "?">>, "raw")

test_getTestAll(c) == Query(<<":", "T", "E", "S", "T", ":", "A", "L", "L", "?">>, "int")

timebase_setDelay(c) == Send(<<":", "T", "I", "M", ":", "D", "E", "L", " ">> \o FormatInt(c.n))

timebase_getDelay(c) == Query(<<":", "T", "I", "M", ":", "D", "E", "L", "?">>, "float")

\* timebase.setMode with the error check of its commented-out line in force: the
\* operation first polls the error queue.
timebase_setMode_ErrorCheck(c) ==
    IF c.s \notin {<<"M", "A", "I", "N">>, <<"D", "E", "L">>, <<"X", "Y">>, <<"R", "O", "L", "L">>} THEN InputError
    ELSE Query(<<":", "S", "Y", "S", ":", "E", "R", "R", "?">>, "raw")

timebase_setMode(c) ==
    IF c.s \notin {<<"M", "A", "I", "N">>, <<"D", "E", "L">>, <<"X", "Y">>, <<"R", "O", "L", "L">>} THEN InputError
    ELSE Send(<<":", "T", "I", "M", ":", "M", "O", "D", " ">> \o c.s)

timebase_getMode(c) == Query(<<":", "T", "I", "M", ":", "M", "O", "D", "?">>, "raw")

\* timebase.setRange that also skips the command while the transport still holds
\* outbound bytes: the encoding then depends on what ran before the call.
timebase_setRange_WhenDrained(c) ==
    IF c.n < 1 \/ c.n > 500 \/ out_waiting # 0 THEN Pass
    ELSE Send(<<":", "T", "I", "M", ":", "R", "A", "N", "G", " ">> \o FormatInt(c.n))

\* range < 0.00000005 or range > 500, on the int ranges the model passes: an int is
\* below 0.00000005 exactly when it is below 1.
timebase_setRange(c) ==
    IF c.n < 1 \/ c.n > 500 THEN Pass
    ELSE Send(<<":", "T", "I", "M", ":", "R", "A", "N", "G", " ">> \o FormatInt(c.n))

timebase_getRange(c) == Query(<<":", "T", "I", "M", ":", "R", "A", "N", "G", "?">>, "float")

timebase_setReference(c) ==
    IF c.s \notin {<<"L", "E", "F", "T">>, <<"C", "E", "N", "T">>, <<"R", "I", "G", "H">>} THEN InputError
    ELSE Query(<<":", "T", "I", "M", ":", "R", "E", "F", " ">> \o c.s, "raw")

timebase_getReference(c) == Query(<<":", "T", "I", "M", ":", "R", "E", "F", "?">>, "raw")

\* trace < 1 or trace > 100
BadTrace(trace_) == trace_ < 1 \/ trace_ > 100

trace_clearTrace(c) ==
    IF BadTrace(c.ch) THEN InputError
    ELSE Send(<<":", "T", "R", "A", "C", ":", "C", "L", "E", "A", "R", " ">> \o FormatInt(c.ch))

trace_setTraceData(c) == Pass

trace_getTraceData(c) == Pass

trace_setTraceMode(c) ==
    IF BadTrace(c.ch) THEN InputError
    ELSE IF c.s \notin {<<"O", "N">>, <<"O", "F", "F">>} THEN InputError
    ELSE Send(<<":", "T", "R", "A", "C", ":", "M", "O", "D", "E", " ">> \o FormatInt(c.ch) \o <<" ">> \o c.s)

trace_getTraceMode(c) ==
    IF BadTrace(c.ch) THEN InputError
    ELSE Query(<<":", "T", "R", "A", "C", ":", "M", "O", "D", "E", "?", " ">> \o FormatInt(c.ch), "raw")

trace_saveToTrace(c) ==
    IF BadTrace(c.ch) THEN InputError
    ELSE Send(<<":", "T", "R", "A", "C", ":", "S", "A", "V", "E", " ">> \o FormatInt(c.ch))

trigger_setCoupling(c) ==
    IF c.s \notin {<<"A", "C">>, <<"D", "C">>} THEN InputError
    ELSE Send(<<":", "T", "R", "I", "G", ":", "C", "O", "U", "P", " ">> \o c.s)

trigger_getCoupling(c) == Query(<<":", "T", "R", "I", "G", ":", "C", "O", "U", "P", "?">>, "raw")

trigger_setHoldoff(c) == Send(<<":", "T", "R", "I", "G", ":", "H", "O", "L", "D", " ">> \o FormatInt(c.n))

\* The body of getHoldoff is its docstring alone.
trigger_getHoldoff(c) == Pass

---------------------------------------------------------------------------
(* The operations by name, and the reply decoders *)

\* The operation a call names, applied to its arguments.
Plan(c) ==
    CASE c.op = "acquire.setCompletionCriteria" -> acquire_setCompletionCriteria(c)
      [] c.op = "acquire.getCompletionCriteria" -> acquire_getCompletionCriteria(c)
      [] c.op = "acquire.setCount" -> acquire_setCount(c)
      [] c.op = "acquire.getCount" -> acquire_getCount(c)
      [] c.op = "acquire.setDither" -> acquire_setDither(c)
      [] c.op = "acquire.getDither" -> acquire_getDither(c)
      [] c.op = "acquire.setType" -> acquire_setType(c)
      [] c.op = "acquire.getType" -> acquire_getType(c)
      [] c.op = "acquire.getPoints" -> acquire_getPoints(c)
      [] c.op = "analog.setBWLimit" -> analog_setBWLimit(c)
      [] c.op = "analog.getBWLimit" -> analog_getBWLimit(c)
      [] c.op = "analog.setCoupling" -> analog_setCoupling(c)
      [] c.op = "analog.getCoupling" -> analog_getCoupling(c)
      [] c.op = "analog.setInversion" -> analog_setInversion(c)
      [] c.op = "analog.getInversion" -> analog_getInversion(c)
      [] c.op = "analog.setLabel" -> analog_setLabel(c)
      [] c.op = "analog.getLabel" -> analog_getLabel(c)
      [] c.op = "analog.setOffset" -> analog_setOffset(c)
      [] c.op = "analog.getOffset" -> analog_getOffset(c)
      [] c.op = "analog.setProbeMode" -> analog_setProbeMode(c)
      [] c.op = "analog.getProbeMode" -> analog_getProbeMode(c)
      [] c.op = "analog.setProbeAttenuation" -> analog_setProbeAttenuation(c)
      [] c.op = "analog.getProbeAttenuation" -> analog_getProbeAttenuation(c)
      [] c.op = "analog.setRange" -> analog_setRange(c)
      [] c.op = "analog.getRange" -> analog_getRange(c)
      [] c.op = "calibrate.setCalibrationLabel" -> calibrate_setCalibrationLabel(c)
      [] c.op = "calibrate.getCalibrationLabel" -> calibrate_getCalibrationLabel(c)
      [] c.op = "calibrate.getCalibrationSwitchState" -> calibrate_getCalibrationSwitchState(c)
      [] c.op = "channel.clearEdgeVariables" -> channel_clearEdgeVariables(c)
      [] c.op = "channel.getActiveEdgesAndLogicLevels" -> channel_getActiveEdgesAndLogicLevels(c)
      [] c.op = "channel.setLabel" -> channel_setLabel(c)
      [] c.op = "channel.getLabel" -> channel_getLabel(c)
      [] c.op = "channel.setMath" -> channel_setMath(c)
      [] c.op = "channel.getMath" -> channel_getMath(c)
      [] c.op = "channel.setThreshold" -> channel_setThreshold(c)
      [] c.op = "channel.getThreshold" -> channel_getThreshold(c)
      [] c.op = "system.getError" -> system_getError(c)
      [] c.op = "test.getTestAll" -> test_getTestAll(c)
      [] c.op = "timebase.setDelay" -> timebase_setDelay(c)
      [] c.op = "timebase.getDelay" -> timebase_getDelay(c)
      [] c.op = "timebase.setMode" -> timebase_setMode(c)
      [] c.op = "timebase.getMode" -> timebase_getMode(c)
      [] c.op = "timebase.setRange" -> timebase_setRange(c)
      [] c.op = "timebase.getRange" -> timebase_getRange(c)
      [] c.op = "timebase.setReference" -> timebase_setReference(c)
      [] c.op = "timebase.getReference" -> timebase_getReference(c)
      [] c.op = "trace.clearTrace" -> trace_clearTrace(c)
      [] c.op = "trace.setTraceData" -> trace_setTraceData(c)
      [] c.op = "trace.getTraceData" -> trace_getTraceData(c)
      [] c.op = "trace.setTraceMode" -> trace_setTraceMode(c)
      [] c.op = "trace.getTraceMode" -> trace_getTraceMode(c)
      [] c.op = "trace.saveToTrace" -> trace_saveToTrace(c)
      [] c.op = "trigger.setCoupling" -> trigger_setCoupling(c)
      [] c.op = "trigger.getCoupling" -> trigger_getCoupling(c)
      [] c.op = "trigger.setHoldoff" -> trigger_setHoldoff(c)
      [] c.op = "trigger.getHoldoff" -> trigger_getHoldoff(c)

\* int(scope.receive())
DecodeInt(line) ==
    IF IntLiteral(line).ok THEN Returned("int", IntLiteral(line).value) ELSE Raised("ValueError")

\* float(scope.receive())
DecodeFloat(line) ==
    IF FloatLiteral(line).ok THEN Returned("float", FloatLiteral(line).value)
    ELSE Raised("ValueError")

\* True if scope.receive().find("ON") else False: an int is true unless it is 0
DecodeFindOn(line) == Returned("bool", find(line, <<"O", "N">>) # 0)

\* getPoints: int(data.split(",")[0]), then int(data.split(",")[1])
DecodePoints(line) ==
    LET fields == split(line, ",")
    IN  IF ~IntLiteral(fields[1]).ok THEN Raised("ValueError")
        ELSE IF Len(fields) < 2 THEN Raised("IndexError")
        ELSE IF ~IntLiteral(fields[2]).ok THEN Raised("ValueError")
        ELSE Returned("pair", <<IntLiteral(fields[1]).value, IntLiteral(fields[2]).value>>)

\* What the operation makes of the str that scope.receive() returned.
Decode(reply, line) ==
    CASE reply = "int" -> DecodeInt(line)
      [] reply = "float" -> DecodeFloat(line)
      [] reply = "find_on" -> DecodeFindOn(line)
      [] reply = "points" -> DecodePoints(line)
      [] OTHER -> Returned("str", line)

---------------------------------------------------------------------------
(* The callers and their inputs *)

\* Caller 1 issues every operation; caller 2 is a second thread of the application that
\* issues one query and one write against the same scope.
Callers == {1, 2}

\* Bytes the transmitter takes from the outbound buffer in one step.
TxChunk == 8

Channels == {1, 2, 3}
Traces == {0, 1, 100, 101}
Criteria == {-1, 0, 42, 100, 101}
Counts == {0, 1, 2, 3, 4, 8, 16, 32, 64, 128, 256, 512}
Labels == {<<>>, <<"C", "H">>, <<"A", "B", "C", "D", "E", "F">>, <<"A", "B", "C", "D", "E", "F", "G">>, <<"A", "U+00E9">>, <<"A", "B", "C", "D", "E", "F", "U+00E9">>}
CalLabels == {<<"C", "A", "L">>, <<"0", "1", "2", "3", "4", "5", "6", "7", "8", "9", "A", "B", "C", "D", "E", "F", "0", "1", "2", "3", "4", "5", "6", "7", "8", "9", "A", "B", "C", "D", "E", "F">>, <<"0", "1", "2", "3", "4", "5", "6", "7", "8", "9", "A", "B", "C", "D", "E", "F", "0", "1", "2", "3", "4", "5", "6", "7", "8", "9", "A", "B", "C", "D", "E", "F", "G">>, <<"U+00E9">>}
Selectors ==
    {<<"A", "1">>, <<"A", "2">>, <<"D", "0">>, <<"D", "1">>, <<"D", "2">>, <<"D", "3">>, <<"D", "4">>, <<"D", "5">>, <<"D", "6">>, <<"D", "7">>, <<"D", "8">>, <<"D", "9">>,
     <<"D", "1", "0">>, <<"D", "1", "1">>, <<"D", "1", "2">>, <<"D", "1", "3">>, <<"D", "1", "4">>, <<"D", "1", "5">>, <<"A", "3">>, <<"D", "1", "6">>, <<"X", "A", "1">>, <<"A", "1", "X">>, <<>>}

Op0(op) == {Invocation(op, 0, 0, FALSE, <<>>, <<>>, "int")}
OpN(op, ns) == {Invocation(op, 0, n, FALSE, <<>>, <<>>, "int") : n \in ns}
OpB(op) == {Invocation(op, 0, 0, b, <<>>, <<>>, "int") : b \in BOOLEAN}
OpS(op, ss) == {Invocation(op, 0, 0, FALSE, s, <<>>, "int") : s \in ss}
OpT(op, ts) == {Invocation(op, 0, 0, FALSE, <<>>, t, "int") : t \in ts}
OpCh(op, chs) == {Invocation(op, ch, 0, FALSE, <<>>, <<>>, "int") : ch \in chs}
OpChN(op, chs, ns) == {Invocation(op, ch, n, FALSE, <<>>, <<>>, "int") : ch \in chs, n \in ns}
OpChB(op, chs) == {Invocation(op, ch, 0, b, <<>>, <<>>, "int") : ch \in chs, b \in BOOLEAN}
OpChS(op, chs, ss) == {Invocation(op, ch, 0, FALSE, s, <<>>, "int") : ch \in chs, s \in ss}
OpChT(op, chs, ts) == {Invocation(op, ch, 0, FALSE, <<>>, t, "int") : ch \in chs, t \in ts}
OpST(op, ss, ts) == {Invocation(op, 0, 0, FALSE, s, t, "int") : s \in ss, t \in ts}
OpChST(op, chs, ss, ts) == {Invocation(op, ch, 0, FALSE, s, t, "int") : ch \in chs, s \in ss, t \in ts}

Calls ==
    OpN("acquire.setCompletionCriteria", Criteria) \cup Op0("acquire.getCompletionCriteria")
    \cup OpN("acquire.setCount", Counts) \cup Op0("acquire.getCount")
    \cup OpB("acquire.setDither") \cup Op0("acquire.getDither")
    \cup OpS("acquire.setType", {<<"N", "O", "R", "M">>, <<"A", "V", "E", "R">>, <<"P", "E", "A", "K">>, <<"R", "E", "A", "L">>, <<"F", "O", "O">>})
    \cup Op0("acquire.getType") \cup Op0("acquire.getPoints")
    \cup OpChB("analog.setBWLimit", Channels) \cup OpCh("analog.getBWLimit", Channels)
    \cup OpChS("analog.setCoupling", Channels, {<<"A", "C">>, <<"D", "C">>, <<"G", "N", "D">>, <<"X", "X">>})
    \cup OpCh("analog.getCoupling", Channels)
    \cup OpChB("analog.setInversion", Channels) \cup OpCh("analog.getInversion", Channels)
    \cup OpChT("analog.setLabel", Channels, Labels) \cup OpCh("analog.getLabel", Channels)
    \cup OpChN("analog.setOffset", Channels, {-5, 0})
    \cup {Invocation("analog.setOffset", ch, 0, FALSE, <<>>, <<"1", "V">>, "str") : ch \in Channels}
    \cup OpCh("analog.getOffset", Channels)
    \cup OpChS("analog.setProbeMode", Channels, {<<"A", "U", "T">>, <<"M", "A", "N">>, <<"X", "X">>})
    \cup OpCh("analog.getProbeMode", Channels)
    \cup OpChS("analog.setProbeAttenuation", Channels, {<<"X", "1">>, <<"X", "1", "0">>, <<"X", "2", "0">>, <<"X", "1", "0", "0">>, <<"X", "5">>})
    \cup OpCh("analog.getProbeAttenuation", Channels)
    \cup OpChN("analog.setRange", Channels, {0, 1, 40, 41}) \cup OpCh("analog.getRange", Channels)
    \cup OpT("calibrate.setCalibrationLabel", CalLabels)
    \cup Op0("calibrate.getCalibrationLabel") \cup Op0("calibrate.getCalibrationSwitchState")
    \cup Op0("channel.clearEdgeVariables") \cup Op0("channel.getActiveEdgesAndLogicLevels")
    \cup OpST("channel.setLabel", Selectors, {<<>>, <<"C", "L", "K">>, <<"A", "B", "C", "D", "E", "F", "G">>, <<"A", "1">>})
    \cup OpS("channel.getLabel", Selectors)
    \cup OpS("channel.setMath", {<<"A", "D", "D">>, <<"S", "U", "B", "T">>, <<"O", "F", "F">>, <<"X", "X">>}) \cup Op0("channel.getMath")
    \cup OpChST("channel.setThreshold", Channels,
                {<<"C", "M", "O", "S">>, <<"E", "C", "L">>, <<"T", "T", "L">>, <<"U", "S", "E", "R">>, <<"X", "X">>}, {<<>>, <<"1", ".", "5", "V">>})
    \cup OpCh("channel.getThreshold", Channels)
    \cup Op0("system.getError") \cup Op0("test.getTestAll")
    \cup OpN("timebase.setDelay", {0, 5}) \cup Op0("timebase.getDelay")
    \cup OpS("timebase.setMode", {<<"M", "A", "I", "N">>, <<"D", "E", "L">>, <<"X", "Y">>, <<"R", "O", "L", "L">>, <<"X", "X">>})
    \cup Op0("timebase.getMode")
    \cup OpChN("timebase.setRange", {1}, {0, 1, 500, 501}) \cup OpCh("timebase.getRange", {1})
    \cup OpS("timebase.setReference", {<<"L", "E", "F", "T">>, <<"C", "E", "N", "T">>, <<"R", "I", "G", "H">>, <<"X", "X">>})
    \cup Op0("timebase.getReference")
    \cup OpCh("trace.clearTrace", Traces)
    \cup Op0("trace.setTraceData") \cup Op0("trace.getTraceData")
    \cup OpChS("trace.setTraceMode", Traces, {<<"O", "N">>, <<"O", "F", "F">>, <<"X", "X">>})
    \cup OpCh("trace.getTraceMode", Traces) \cup OpCh("trace.saveToTrace", Traces)
    \cup OpS("trigger.setCoupling", {<<"A", "C">>, <<"D", "C">>, <<"X", "X">>}) \cup Op0("trigger.getCoupling")
    \cup OpN("trigger.setHoldoff", {0, 5}) \cup Op0("trigger.getHoldoff")

ConcurrentCalls == Op0("acquire.getCompletionCriteria") \cup {Invocation("acquire.setDither", 0, 0, TRUE, <<>>, <<>>, "int")}

CallsOf(p) == IF p = 1 THEN Calls ELSE ConcurrentCalls

\* What read_until() can return on an open port: a line the instrument sent, or, when
\* the timeout of 1 s elapses first, the empty bytes.
ReplyLines ==
    {encode(<<"O", "N", "\n">>), encode(<<"O", "F", "F", "\n">>), encode(<<"1", "0", "2", "4", ",", "1", "6", "\n">>), encode(<<"1", "0", "2", "4", "\n">>),
     encode(<<"0", "\n">>), encode(<<"4", "2", "\n">>), encode(<<"1", "0", "0", "\n">>), encode(<<"N", "O", "R", "M", "\n">>), <<>>}

---------------------------------------------------------------------------
(* The state machine *)

\* After scope.__init__: serial.Serial(port = ...) has opened the port.
Init ==
    /\ is_open = TRUE
    /\ out_waiting = 0
    /\ pc = [p \in Callers |-> "idle"]
    /\ call = [p \in Callers |-> NoCall]
    /\ message = [p \in Callers |-> <<>>]
    /\ written = [p \in Callers |-> 0]
    /\ trace = [p \in Callers |-> <<>>]
    /\ data = [p \in Callers |-> <<>>]
    /\ result = [p \in Callers |-> Pending]

\* Caller p enters the operation call c: it runs up to the operation's first transport
\* call.
Enter(p, c) ==
    /\ pc[p] = "idle"
    /\ call' = [call EXCEPT ![p] = c]
    /\ message' = [message EXCEPT ![p] = Plan(c).msg]
    /\ pc' = [pc EXCEPT ![p] = IF Plan(c).kind = "send" THEN "open" ELSE "done"]
    /\ result' = [result EXCEPT ![p] =
                     CASE Plan(c).kind = "raise" -> Raised(Plan(c).exc)
                       [] Plan(c).kind = "return" -> None
                       [] OTHER -> Pending]
    /\ UNCHANGED <<is_open, out_waiting, written, trace, data>>

Invoke(p) == \E c \in CallsOf(p) : Enter(p, c)

\* The exception exc leaves the operation of caller p.
Fail(p, exc) ==
    /\ pc' = [pc EXCEPT ![p] = "done"]
    /\ result' = [result EXCEPT ![p] = Raised(exc)]

Log(p, method) == trace' = [trace EXCEPT ![p] = Append(@, method)]

\* scope.send: scope.serialObject.open()
send_open(p) ==
    /\ pc[p] = "open"
    /\ Log(p, "open")
    /\ IF is_open
       THEN Fail(p, "SerialException") /\ UNCHANGED is_open
       ELSE is_open' = TRUE /\ pc' = [pc EXCEPT ![p] = "write"] /\ UNCHANGED result
    /\ UNCHANGED <<out_waiting, call, message, written, data>>

\* scope.send: scope.serialObject.write(message.encode('utf-8'))
send_write(p) ==
    /\ pc[p] = "write"
    /\ Log(p, "write")
    /\ IF ~is_open
       THEN Fail(p, "PortNotOpenError") /\ UNCHANGED <<out_waiting, written>>
       ELSE /\ out_waiting' = out_waiting + Len(encode(message[p]))
            /\ written' = [written EXCEPT ![p] = Len(encode(message[p]))]
            /\ pc' = [pc EXCEPT ![p] = "wait"]
            /\ UNCHANGED result
    /\ UNCHANGED <<is_open, call, message, data>>

\* A busy-wait whose test never lets the loop end.
LoopExit_Never(pending) == FALSE

\* A busy-wait that is left at its first test, whatever is pending.
LoopExit_NoWait(pending) == TRUE

\* while scope.serialObject.out_waiting is not 0: pass
LoopExit(pending) == pending = 0

\* scope.send: one test of the busy-wait loop
send_wait(p) ==
    /\ pc[p] = "wait"
    /\ IF ~is_open
       THEN Fail(p, "PortNotOpenError")
       ELSE /\ pc' = [pc EXCEPT ![p] = IF LoopExit(out_waiting) THEN "close" ELSE "wait"]
            /\ UNCHANGED result
    /\ UNCHANGED <<is_open, out_waiting, call, message, written, trace, data>>

\* scope.send: scope.serialObject.close(), and the return to the operation, which
\* returns None or goes on to scope.receive()
send_close(p) ==
    /\ pc[p] = "close"
    /\ Log(p, "close")
    /\ is_open' = FALSE
    /\ IF Plan(call[p]).reply = "none"
       THEN pc' = [pc EXCEPT ![p] = "done"] /\ result' = [result EXCEPT ![p] = None]
       ELSE pc' = [pc EXCEPT ![p] = "receive"] /\ UNCHANGED result
    /\ UNCHANGED <<out_waiting, call, message, written, data>>

\* scope.receive: str(scope.serialObject.read_until()), and the operation's decoding of it
receive(p) ==
    /\ pc[p] = "receive"
    /\ Log(p, "read_until")
    /\ pc' = [pc EXCEPT ![p] = "done"]
    /\ IF ~is_open
       THEN result' = [result EXCEPT ![p] = Raised("PortNotOpenError")] /\ UNCHANGED data
       ELSE \E line \in ReplyLines :
               /\ data' = [data EXCEPT ![p] = line]
               /\ result' = [result EXCEPT ![p] = Decode(Plan(call[p]).reply, str(line))]
    /\ UNCHANGED <<is_open, out_waiting, call, message, written>>

\* The caller has the outcome of its operation and is free to start the next one.
Return(p) ==
    /\ pc[p] = "done"
    /\ pc' = [pc EXCEPT ![p] = "idle"]
    /\ call' = [call EXCEPT ![p] = NoCall]
    /\ message' = [message EXCEPT ![p] = <<>>]
    /\ written' = [written EXCEPT ![p] = 0]
    /\ trace' = [trace EXCEPT ![p] = <<>>]
    /\ data' = [data EXCEPT ![p] = <<>>]
    /\ result' = [result EXCEPT ![p] = Pending]
    /\ UNCHANGED <<is_open, out_waiting>>

\* The transmitter sends up to TxChunk pending bytes.
Drain ==
    /\ out_waiting > 0
    /\ out_waiting' = IF out_waiting > TxChunk THEN out_waiting - TxChunk ELSE 0
    /\ UNCHANGED <<is_open, pc, call, message, written, trace, data, result>>

\* The application releases the port (scope.serialObject.close()) while no send holds it:
\* the constructor left the port open, and scope.send opens it itself.
Release ==
    /\ is_open
    /\ \A p \in Callers : pc[p] \notin {"write", "wait", "close"}
    /\ is_open' = FALSE
    /\ UNCHANGED <<out_waiting, pc, call, message, written, trace, data, result>>

Next ==
    \/ \E p \in Callers : Invoke(p)
    \/ \E p \in Callers : send_open(p)
    \/ \E p \in Callers : send_write(p)
    \/ \E p \in Callers : send_wait(p)
    \/ \E p \in Callers : send_close(p)
    \/ \E p \in Callers : receive(p)
    \/ \E p \in Callers : Return(p)
    \/ Drain
    \/ Release

Spec == Init /\ [][Next]_vars

\* scope.send as one process: whichever of its steps caller p stands at.
send(p) == send_open(p) \/ send_write(p) \/ send_wait(p) \/ send_close(p)

\* The machine with its scheduling assumptions: a caller inside scope.send goes on
\* running, and the transport goes on transmitting what it holds.
FairSpec == Spec /\ WF_vars(Drain) /\ \A p \in Callers : WF_vars(send(p))

\* The same machine with both callers drawing from one set of calls, so that the same
\* call is in progress twice at once.
PairCalls ==
    {c \in Calls : /\ c.ch \in {0, 1}
                   /\ c.n \in {0, 1}
                   /\ c.op \in {"channel.setLabel", "channel.getLabel"} => c.s \in {<<"A", "1">>, <<"A", "3">>}}

InvokeEither(p) == \E c \in PairCalls : Enter(p, c)

PairNext ==
    \/ \E p \in Callers : InvokeEither(p)
    \/ \E p \in Callers : send_open(p)
    \/ \E p \in Callers : send_write(p)
    \/ \E p \in Callers : send_wait(p)
    \/ \E p \in Callers : send_close(p)
    \/ \E p \in Callers : receive(p)
    \/ \E p \in Callers : Return(p)
    \/ Drain
    \/ Release

PairSpec == Init /\ [][PairNext]_vars

---------------------------------------------------------------------------
(* Vocabulary of the claims *)

SendSteps == {"open", "write", "wait", "close"}

\* The current call of caller p has called scope.send.
SendInvoked(p) == pc[p] \in SendSteps \cup {"receive"} \/ trace[p] # <<>>

\* The call is a query: a send followed by a receive.
IsQuery(c) == c.op # "" /\ Plan(c).kind = "send" /\ Plan(c).reply # "none"

Finished(p) == pc[p] = "done"

PowersOfTwo == {1, 2, 4, 8, 16, 32, 64, 128, 256}
AsciiLetters == {Printable[i] : i \in 34..59} \cup {Printable[i] : i \in 66..91}
AllAscii(s) == \A i \in 1..Len(s) : s[i] # "U+00E9"
ValidSelectors ==
    {<<"A", "1">>, <<"A", "2">>, <<"D", "0">>, <<"D", "1">>, <<"D", "2">>, <<"D", "3">>, <<"D", "4">>, <<"D", "5">>, <<"D", "6">>, <<"D", "7">>, <<"D", "8">>, <<"D", "9">>,
     <<"D", "1", "0">>, <<"D", "1", "1">>, <<"D", "1", "2">>, <<"D", "1", "3">>, <<"D", "1", "4">>, <<"D", "1", "5">>}

\* The documented constraint of an argument-validating operation is not met by the call.
FailsValidation(c) ==
    CASE c.op = "acquire.setCompletionCriteria" -> c.n \notin 0..100
      [] c.op = "acquire.setCount" -> c.n \notin PowersOfTwo
      [] c.op = "acquire.setType" -> c.s \notin {<<"N", "O", "R", "M">>, <<"A", "V", "E", "R">>, <<"P", "E", "A", "K">>, <<"R", "E", "A", "L">>}
      [] c.op \in {"analog.setBWLimit", "analog.getBWLimit", "analog.getCoupling",
                   "analog.setInversion", "analog.getInversion", "analog.getLabel",
                   "analog.getOffset", "analog.getProbeMode", "analog.getProbeAttenuation",
                   "analog.setRange", "analog.getRange", "channel.getThreshold"} ->
            c.ch \notin {1, 2}
      [] c.op = "analog.setCoupling" -> c.ch \notin {1, 2} \/ c.s \notin {<<"A", "C">>, <<"D", "C">>, <<"G", "N", "D">>}
      [] c.op = "analog.setLabel" -> c.ch \notin {1, 2} \/ ~AllAscii(c.t) \/ Len(c.t) > 6
      [] c.op = "analog.setOffset" -> c.ch \notin {1, 2} \/ c.vt # "int"
      [] c.op = "analog.setProbeMode" -> c.ch \notin {1, 2} \/ c.s \notin {<<"A", "U", "T">>, <<"M", "A", "N">>}
      [] c.op = "analog.setProbeAttenuation" ->
            c.ch \notin {1, 2} \/ c.s \notin {<<"X", "1">>, <<"X", "1", "0">>, <<"X", "2", "0">>, <<"X", "1", "0", "0">>}
      [] c.op = "calibrate.setCalibrationLabel" -> ~AllAscii(c.t) \/ Len(c.t) > 32
      [] c.op = "channel.setLabel" ->
            \/ c.s \notin ValidSelectors
            \/ Len(c.t) \notin 1..6
            \/ \E i \in 1..Len(c.t) : c.t[i] \notin AsciiLetters
      [] c.op = "channel.getLabel" -> c.s \notin ValidSelectors
      [] c.op = "channel.setMath" -> c.s \notin {<<"A", "D", "D">>, <<"S", "U", "B", "T">>, <<"O", "F", "F">>}
      [] c.op = "channel.setThreshold" ->
            c.ch \notin {1, 2} \/ c.s \notin {<<"C", "M", "O", "S">>, <<"E", "C", "L">>, <<"T", "T", "L">>, <<"U", "S", "E", "R">>}
      [] c.op = "timebase.setMode" -> c.s \notin {<<"M", "A", "I", "N">>, <<"D", "E", "L">>, <<"X", "Y">>, <<"R", "O", "L", "L">>}
      [] c.op = "timebase.setRange" -> c.n < 1 \/ c.n > 500
      [] c.op = "timebase.setReference" -> c.s \notin {<<"L", "E", "F", "T">>, <<"C", "E", "N", "T">>, <<"R", "I", "G", "H">>}
      [] c.op \in {"trace.clearTrace", "trace.getTraceMode", "trace.saveToTrace"} ->
            c.ch \notin 1..100
      [] c.op = "trace.setTraceMode" -> c.ch \notin 1..100 \/ c.s \notin {<<"O", "N">>, <<"O", "F", "F">>}
      [] c.op = "trigger.setCoupling" -> c.s \notin {<<"A", "C">>, <<"D", "C">>}
      [] OTHER -> FALSE

---------------------------------------------------------------------------
(* C1 *)

\* C1: a call whose argument fails validation is rejected with an error and invokes no
\* method of the transport at any point of the call.
C1_RejectedWithoutIO ==
    \A p \in Callers :
        pc[p] # "idle" /\ FailsValidation(call[p]) =>
            /\ trace[p] = <<>> /\ message[p] = <<>>
            /\ Finished(p) /\ result[p].kind = "raise"

\* The transport half of C1 alone: no method of the transport is invoked.
C1_NoIO ==
    \A p \in Callers :
        pc[p] # "idle" /\ FailsValidation(call[p]) =>
            trace[p] = <<>> /\ message[p] = <<>> /\ Finished(p)

---------------------------------------------------------------------------
(* C2 *)

\* C2: while one caller's query stands between its send and its matching receive, no
\* other caller's query is inside its own send (open, write, drain, close).
C2_PairsDoNotInterleave ==
    \A p, q \in Callers :
        p # q /\ IsQuery(call[p]) /\ IsQuery(call[q]) /\ pc[p] = "receive" =>
            pc[q] \notin {"write", "wait", "close"}

---------------------------------------------------------------------------
(* C3 *)

\* C3: in the step in which scope.send returns normally (its close), the whole payload
\* has been accepted by write, no byte is pending in the outbound buffer, and the port
\* is closed.
C3_SendLeavesNothingPending ==
    [][\A p \in Callers :
          pc[p] = "close" /\ pc'[p] # "close" =>
              /\ written'[p] = Len(encode(message'[p]))
              /\ out_waiting' = 0
              /\ ~is_open']_vars

\* A query whose send has returned normally and whose receive has not run yet.
C3_Witness == \E p \in Callers : pc[p] = "receive" /\ written[p] > TxChunk /\ ~is_open

---------------------------------------------------------------------------
(* C4 *)

\* C4: whenever no send is in progress, the serial port is closed.
C4_ClosedBetweenSends ==
    (\A p \in Callers : pc[p] \notin SendSteps) => ~is_open

---------------------------------------------------------------------------
(* C5 *)

\* C5: every transport write and every transport read of an operation happens while the
\* port is open; in particular a query reads its reply while the port is open.
C5_IOWhileOpen ==
    \A p \in Callers : pc[p] \in {"write", "receive"} => is_open

---------------------------------------------------------------------------
(* C6 *)

\* C6: analog.getBWLimit and analog.getInversion with channel 1 or 2 return true for the
\* reply line ON and false for the reply line OFF.
C6_BooleanReply ==
    \A p \in Callers :
        /\ Finished(p)
        /\ call[p].op \in {"analog.getBWLimit", "analog.getInversion"}
        /\ call[p].ch \in {1, 2}
        => /\ data[p] = <<79, 78, 10>> => result[p] = Returned("bool", TRUE)
           /\ data[p] = <<79, 70, 70, 10>> => result[p] = Returned("bool", FALSE)

---------------------------------------------------------------------------
(* C7 *)

\* C7: acquire.getPoints returns (1024, 16) for the reply line 1024,16 and fails for the
\* reply line 1024, whose field count is not two.
C7_PointsReply ==
    \A p \in Callers :
        Finished(p) /\ call[p].op = "acquire.getPoints" =>
            /\ data[p] = <<49, 48, 50, 52, 44, 49, 54, 10>> =>
                  result[p] = Returned("pair", <<1024, 16>>)
            /\ data[p] = <<49, 48, 50, 52, 10>> => result[p].kind = "raise"

---------------------------------------------------------------------------
(* C8 *)

\* The decimal argument acquire.setCompletionCriteria(n) puts on the wire: what follows
\* ":ACQ:COMP " in its message, up to the line terminator.
WireArgument(n) ==
    LET msg == acquire_setCompletionCriteria(Invocation("", 0, n, FALSE, <<>>, <<>>, "int")).msg
    IN  SubSeq(msg, 11, Len(msg) - 1)

\* C8: for n in 0..100, acquire.getCompletionCriteria decodes the reply line made of the
\* argument setCompletionCriteria(n) writes, and the line terminator, to n.
C8_CriteriaRoundTrip ==
    \A p \in Callers : \A n \in 0..100 :
        /\ Finished(p)
        /\ call[p].op = "acquire.getCompletionCriteria"
        /\ data[p] = encode(WireArgument(n) \o <<"\n">>)
        => result[p] = Returned("int", n)

---------------------------------------------------------------------------
(* C9 *)

CountMessage ==
    [n \in PowersOfTwo |->
        CASE n = 1 -> <<":", "A", "C", "Q", ":", "C", "O", "U", "N", " ", "1", "\n">> [] n = 2 -> <<":", "A", "C", "Q", ":", "C", "O", "U", "N", " ", "2", "\n">> [] n = 4 -> <<":", "A", "C", "Q", ":", "C", "O", "U", "N", " ", "4", "\n">>
          [] n = 8 -> <<":", "A", "C", "Q", ":", "C", "O", "U", "N", " ", "8", "\n">> [] n = 16 -> <<":", "A", "C", "Q", ":", "C", "O", "U", "N", " ", "1", "6", "\n">>
          [] n = 32 -> <<":", "A", "C", "Q", ":", "C", "O", "U", "N", " ", "3", "2", "\n">> [] n = 64 -> <<":", "A", "C", "Q", ":", "C", "O", "U", "N", " ", "6", "4", "\n">>
          [] n = 128 -> <<":", "A", "C", "Q", ":", "C", "O", "U", "N", " ", "1", "2", "8", "\n">> [] n = 256 -> <<":", "A", "C", "Q", ":", "C", "O", "U", "N", " ", "2", "5", "6", "\n">>]

\* C9: acquire.setCount(count) calls scope.send(":ACQ:COUN <count>\n") when count is one
\* of 1, 2, 4, ..., 256; for any other count it raises InputError and sends nothing.
C9_SetCount ==
    \A p \in Callers :
        pc[p] # "idle" /\ call[p].op = "acquire.setCount" =>
            IF call[p].n \in PowersOfTwo
            THEN SendInvoked(p) /\ message[p] = CountMessage[call[p].n]
            ELSE /\ Finished(p) /\ result[p] = Raised("InputError")
                 /\ trace[p] = <<>> /\ message[p] = <<>>

\* setCount(256) has been sent in full, and setCount(3) has been rejected.
C9_Witness ==
    \E p \in Callers :
        /\ call[p].op = "acquire.setCount" /\ call[p].n = 256
        /\ Finished(p) /\ result[p] = None /\ written[p] = 14

---------------------------------------------------------------------------
(* C10 *)

\* C10: analog.setLabel with channel 1 or 2 sends :ANAL<channel>:LAB "<label>" when the
\* label has at most 6 characters, all ASCII; it rejects a label of 7 or more characters
\* and a label with a non-ASCII character of any length, and a rejected label is not sent.
C10_SetLabel ==
    \A p \in Callers :
        pc[p] # "idle" /\ call[p].op = "analog.setLabel" /\ call[p].ch \in {1, 2} =>
            IF Len(call[p].t) <= 6 /\ AllAscii(call[p].t)
            THEN /\ SendInvoked(p)
                 /\ message[p] = (IF call[p].ch = 1 THEN <<":", "A", "N", "A", "L", "1", ":", "L", "A", "B", " ">> ELSE <<":", "A", "N", "A", "L", "2", ":", "L", "A", "B", " ">>)
                                 \o <<"\"">> \o call[p].t \o <<"\"", "\n">>
            ELSE /\ Finished(p) /\ result[p].kind = "raise"
                 /\ trace[p] = <<>> /\ message[p] = <<>>

\* A label of exactly 6 ASCII characters has been sent in full.
C10_Witness ==
    \E p \in Callers :
        /\ call[p].op = "analog.setLabel" /\ call[p].ch = 2 /\ call[p].t = <<"A", "B", "C", "D", "E", "F">>
        /\ Finished(p) /\ result[p] = None /\ written[p] = 20

---------------------------------------------------------------------------
(* C11 *)

\* The operations whose channel or channel-group argument is restricted to 1 and 2.
ChannelOps ==
    {"analog.setBWLimit", "analog.getBWLimit", "analog.setCoupling", "analog.getCoupling",
     "analog.setInversion", "analog.getInversion", "analog.setLabel", "analog.getLabel",
     "analog.setOffset", "analog.getOffset", "analog.setProbeMode", "analog.getProbeMode",
     "analog.setProbeAttenuation", "analog.getProbeAttenuation", "analog.setRange",
     "analog.getRange", "channel.setThreshold", "channel.getThreshold"}

\* C11: an operation with a channel or channel group restricted to {1, 2}, called with
\* selector 3, ends in InputError, and no command is passed to the transport.
C11_SelectorThreeRejected ==
    \A p \in Callers :
        pc[p] # "idle" /\ call[p].op \in ChannelOps /\ call[p].ch = 3 =>
            /\ Finished(p) /\ result[p] = Raised("InputError")
            /\ trace[p] = <<>> /\ message[p] = <<>>

\* The transport half of C11 alone: selector 3 never reaches the transport.
C11_SelectorThreeNotSent ==
    \A p \in Callers :
        pc[p] # "idle" /\ call[p].op \in ChannelOps /\ call[p].ch = 3 =>
            Finished(p) /\ result[p].kind = "raise" /\ trace[p] = <<>> /\ message[p] = <<>>

---------------------------------------------------------------------------
(* C12 *)

\* C12: every string passed to scope.send starts with ":" and ends with the line
\* terminator.
C12_Framed ==
    \A p \in Callers :
        SendInvoked(p) =>
            /\ message[p] # <<>>
            /\ Head(message[p]) = ":"
            /\ message[p][Len(message[p])] = "\n"

---------------------------------------------------------------------------
(* C13 *)

---------------------------------------------------------------------------
(* C14 *)

QueryOps ==
    {"acquire.getCompletionCriteria", "acquire.getCount", "acquire.getDither",
     "acquire.getType", "acquire.getPoints", "analog.getBWLimit", "analog.getCoupling",
     "analog.getInversion", "analog.getLabel", "analog.getOffset", "analog.getProbeMode",
     "analog.getProbeAttenuation", "analog.getRange", "calibrate.getCalibrationLabel",
     "calibrate.getCalibrationSwitchState", "channel.getActiveEdgesAndLogicLevels",
     "channel.getLabel", "channel.getMath", "channel.getThreshold", "system.getError",
     "test.getTestAll", "timebase.getDelay", "timebase.getMode", "timebase.getRange",
     "timebase.getReference", "trace.getTraceData", "trace.getTraceMode",
     "trigger.getCoupling", "trigger.getHoldoff"}

\* The transport events of a call that follows the declared control flow: one send, and
\* for a query one read after it.
DeclaredEvents(c) ==
    IF c.op \in QueryOps THEN <<"open", "write", "close", "read_until">>
    ELSE <<"open", "write", "close">>

IsPrefix(s, t) == Len(s) <= Len(t) /\ SubSeq(t, 1, Len(s)) = s

TransportErrors == {"SerialException", "PortNotOpenError"}

\* C14: a write operation with valid arguments performs exactly one send and no read, a
\* query with valid arguments exactly one send followed by exactly one read; no
\* operation reads before its send has completed, or sends or reads more than once.
C14_ControlFlow ==
    \A p \in Callers :
        pc[p] # "idle" =>
            /\ IsPrefix(trace[p], DeclaredEvents(call[p]))
            /\ Finished(p) /\ ~FailsValidation(call[p])
                 /\ result[p].exc \notin TransportErrors =>
                    trace[p] = DeclaredEvents(call[p])

\* The first half of C14 alone: the events of every call are an initial part of the
\* declared flow.
C14_NoExtraEvents ==
    \A p \in Callers :
        pc[p] # "idle" => IsPrefix(trace[p], DeclaredEvents(call[p]))

---------------------------------------------------------------------------
(* C15 *)

\* C15: a query returns a value only when the reply has its declared shape: getDither
\* returns only a value denoting ON or OFF, getType only NORM, AVER, PEAK or REAL; on an
\* empty or any other reply the operation fails instead of returning the raw line.
C15_ShapedReply ==
    \A p \in Callers :
        Finished(p) /\ result[p].kind = "return" =>
            /\ call[p].op = "acquire.getDither" =>
                  \/ result[p].ty = "bool"
                  \/ result[p].ty = "str" /\ result[p].v \in {<<"O", "N">>, <<"O", "F", "F">>}
            /\ call[p].op = "acquire.getType" =>
                  result[p].ty = "str"
                      /\ result[p].v \in {<<"N", "O", "R", "M">>, <<"A", "V", "E", "R">>, <<"P", "E", "A", "K">>, <<"R", "E", "A", "L">>}

---------------------------------------------------------------------------
(* C16 *)

\* C16: an operation that decides not to send because an argument fails validation ends
\* by raising an error; it never returns normally without having sent.
C16_NotSwallowed ==
    \A p \in Callers :
        Finished(p) /\ FailsValidation(call[p]) /\ ~SendInvoked(p) =>
            result[p].kind = "raise"

---------------------------------------------------------------------------
(* C17 *)

ErrorQuery == <<":", "S", "Y", "S", ":", "E", "R", "R", "?">>

\* The number of times the current call of caller p has called write().
Writes(p) == Cardinality({i \in DOMAIN trace[p] : trace[p][i] = "write"})

---------------------------------------------------------------------------
(* C18 *)

\* The command the documentation gives for a set operation with an enumerated argument.
DocumentedCommand(c) ==
    CASE c.op = "channel.setMath" -> <<":", "C", "H", "A", "N", ":", "M", "A", "T", "H", " ">> \o c.s \o <<"\n">>
      [] c.op = "analog.setProbeAttenuation" ->
            <<":", "A", "N", "A", "L">> \o FormatInt(c.ch) \o <<":", "P", "R", "O", "B", " ">> \o c.s
      [] c.op = "channel.setThreshold" ->
            <<":", "C", "H", "A", "N", ":", "T", "H", "R", " ", "P", "O", "D">> \o FormatInt(c.ch) \o <<",">> \o c.s
      [] OTHER -> <<>>

EnumeratedOps == {"channel.setMath", "analog.setProbeAttenuation", "channel.setThreshold"}

\* C18: channel.setMath, analog.setProbeAttenuation and channel.setThreshold accept every
\* value of their documented sets and send the corresponding command.
C18_DocumentedValuesSent ==
    \A p \in Callers :
        pc[p] # "idle" /\ call[p].op \in EnumeratedOps /\ ~FailsValidation(call[p]) =>
            /\ SendInvoked(p)
            /\ IsPrefix(DocumentedCommand(call[p]), message[p])

---------------------------------------------------------------------------
(* C19 *)

\* "ANAL<n>" for the selector "A<n>" and "DIG<n>" for the selector "D<n>".
ChannelName(selector) ==
    (IF Head(selector) = "A" THEN <<"A", "N", "A", "L">> ELSE <<"D", "I", "G">>) \o Tail(selector)

\* C19: channel.setLabel and channel.getLabel accept exactly the selectors A1, A2 and
\* D0..D15 (setLabel with a label of one to six ASCII letters) and send the :CHAN:LAB
\* command with ANAL<n> or DIG<n>; every other selector raises InputError and sends
\* nothing.
C19_Selectors ==
    \A p \in Callers :
        pc[p] # "idle" /\ call[p].op \in {"channel.setLabel", "channel.getLabel"} =>
            IF FailsValidation(call[p])
            THEN Finished(p) /\ result[p] = Raised("InputError") /\ trace[p] = <<>>
            ELSE /\ SendInvoked(p)
                 /\ call[p].op = "channel.setLabel" =>
                       IsPrefix(<<":", "C", "H", "A", "N", ":", "L", "A", "B", " ">> \o ChannelName(call[p].s), message[p])
                 /\ call[p].op = "channel.getLabel" =>
                       IsPrefix(<<":", "C", "H", "A", "N", ":", "L", "A", "B", "?", " ">> \o ChannelName(call[p].s), message[p])

\* The rejecting half of C19 with any error in place of InputError.
C19_InvalidRejected ==
    \A p \in Callers :
        pc[p] # "idle" /\ call[p].op \in {"channel.setLabel", "channel.getLabel"}
            /\ FailsValidation(call[p]) =>
                Finished(p) /\ result[p].kind = "raise" /\ trace[p] = <<>>

---------------------------------------------------------------------------
(* C20 *)

\* C20: while the transport keeps draining, every call of scope.send returns (no caller
\* stays inside scope.send for ever); and a call waiting on bytes that are not drained
\* stays in its busy-wait, the port open.
C20_SendTerminates ==
    /\ \A p \in Callers : []<>(pc[p] \notin SendSteps)
    /\ [][\A p \in Callers :
             pc[p] = "wait" /\ out_waiting # 0 /\ out_waiting' = out_waiting =>
                 pc'[p] = "wait" /\ is_open /\ is_open']_vars

\* A call of scope.send has returned after a message the transport took more than one
\* step to drain.
C20_Witness ==
    \E p \in Callers :
        /\ pc[p] \in {"receive", "done"}
        /\ written[p] > TxChunk
        /\ trace[p][Len(trace[p])] \in {"close", "read_until"}
        /\ Len(trace[p]) >= 3

=============================================================================
